---- MODULE Spec2Model ----
(***************************************************************************)
(* CalShift (src/CalShift.ipynb): a loss module over a frozen CLIP         *)
(* backbone.  The model has two parts.                                     *)
(*                                                                         *)
(*   Spec      the objects of the program as a state machine: the backbone *)
(*             (clip_model), the CalShift object (self), the caller's      *)
(*             position (pc), the batch handed to forward and what forward *)
(*             gave back (outcome).                                        *)
(*   SpecWide  the same machine on one backbone, with a batch of as many   *)
(*             prompts as F.cross_entropy's ignore_index is negative.      *)
(*   SpecLoss  the pure loss functions (the contrastive loss of line 83    *)
(*             and compute_cmp) applied to logits matrices drawn from a    *)
(*             bounded set.                                                *)
(*                                                                         *)
(* Numbers.  Tensors hold floating point values; the model computes with   *)
(* exact rationals plus one NaN value (0/0).  exp is modelled by a power   *)
(* of ExpBase on integer arguments and log by a formal logarithm: a        *)
(* cross-entropy is kept as the pair (product of the picked probabilities, *)
(* number of samples), standing for -log(product)/samples.  Rounding is    *)
(* not modelled.  The embeddings the backbone returns are axis-aligned, so *)
(* that their Euclidean norm is an integer and the logits are integers.    *)
(***************************************************************************)
EXTENDS Integers, Sequences, FiniteSets, TLC

\* ------------------------------------------------------------------ bounds

MaxN == 2              \* images per batch (Spec)
MaxM == 2              \* text prompts per batch (Spec)
MaxDim == 2            \* rows and columns of a logits matrix (SpecLoss)

\* the stand-in for e in exp(): softmax weights are ExpBase^logit
ExpBase == 2
\* F.cross_entropy's default ignore_index (line 83 passes none)
IgnoreIndex == -100

\* ------------------------------------------------------------- arithmetic

Abs(x) == IF x < 0 THEN -x ELSE x

RECURSIVE Gcd(_, _)
Gcd(a, b) == IF b = 0 THEN a ELSE Gcd(b, a % b)

RECURSIVE Pow(_, _)
Pow(b, k) == IF k = 0 THEN 1 ELSE b * Pow(b, k - 1)

RECURSIVE ISqrtFrom(_, _)
ISqrtFrom(x, r) == IF (r + 1) * (r + 1) > x THEN r ELSE ISqrtFrom(x, r + 1)

\* A tensor element: a reduced fraction n/d with d > 0, or NaN.
NaN == [nan |-> TRUE, n |-> 0, d |-> 1]

Q(n, d) ==
    LET g == Gcd(Abs(n), Abs(d))
        s == IF d < 0 THEN -1 ELSE 1
    IN  [nan |-> FALSE, n |-> (s * n) \div g, d |-> (s * d) \div g]

I(k) == [nan |-> FALSE, n |-> k, d |-> 1]

Zero == I(0)

\* over the least common denominator, so that the integers stay small
Add(a, b) ==
    IF a.nan \/ b.nan THEN NaN
    ELSE LET g == Gcd(a.d, b.d)
         IN  Q(a.n * (b.d \div g) + b.n * (a.d \div g), (a.d \div g) * b.d)

Neg(a) == IF a.nan THEN NaN ELSE [a EXCEPT !.n = -a.n]

\* cancelling crosswise before multiplying, for the same reason
Mul(a, b) ==
    IF a.nan \/ b.nan THEN NaN
    ELSE LET g == Gcd(Abs(a.n), b.d)
             h == Gcd(Abs(b.n), a.d)
         IN  Q((a.n \div g) * (b.n \div h), (a.d \div h) * (b.d \div g))

\* x / 0 arises in the program only as 0 / 0 (a zero vector over its zero norm,
\* a mean over no samples), which is NaN.
Div(a, b) ==
    IF a.nan \/ b.nan \/ b.n = 0 THEN NaN ELSE Q(a.n * b.d, a.d * b.n)

\* IEEE comparisons: every comparison with NaN is false, NaN == NaN included.
Gt(a, b) == ~a.nan /\ ~b.nan /\ a.n * b.d > b.n * a.d

Ge(a, b) == ~a.nan /\ ~b.nan /\ a.n * b.d >= b.n * a.d

NumEq(a, b) == ~a.nan /\ ~b.nan /\ a.n = b.n /\ a.d = b.d

\* exp of an integer-valued tensor element
Exp(a) ==
    IF a.nan THEN NaN
    ELSE IF a.n >= 0 THEN I(Pow(ExpBase, a.n)) ELSE Q(1, Pow(ExpBase, -a.n))

\* sums and products of a sequence, by halves
RECURSIVE SumFromTo(_, _, _)
SumFromTo(s, lo, hi) ==
    IF lo > hi THEN Zero
    ELSE IF lo = hi THEN s[lo]
    ELSE LET mid == (lo + hi) \div 2
         IN  Add(SumFromTo(s, lo, mid), SumFromTo(s, mid + 1, hi))

SumSeq(s) == SumFromTo(s, 1, Len(s))

RECURSIVE ProdFromTo(_, _, _)
ProdFromTo(s, lo, hi) ==
    IF lo > hi THEN I(1)
    ELSE IF lo = hi THEN s[lo]
    ELSE LET mid == (lo + hi) \div 2
         IN  Mul(ProdFromTo(s, lo, mid), ProdFromTo(s, mid + 1, hi))

ProdSeq(s) == ProdFromTo(s, 1, Len(s))

Sq(a) == Mul(a, a)

\* ------------------------------------------------- a loss with a logarithm

\* -log(arg)/den + plus, with arg and plus fractions; or NaN.
LNaN == [nan |-> TRUE, arg |-> I(1), den |-> 1, plus |-> Zero]

LogVal(arg, den, plus) ==
    IF arg.nan \/ plus.nan \/ den = 0 THEN LNaN
    ELSE [nan |-> FALSE, arg |-> arg, den |-> den, plus |-> plus]

\* (a + b) / 2 of two cross-entropies
RPow(a, k) == IF a.nan THEN NaN ELSE Q(Pow(a.n, k), Pow(a.d, k))

LMean2(a, b) ==
    IF a.nan \/ b.nan THEN LNaN
    ELSE LET g == Gcd(a.den, b.den)
         IN  LogVal(Mul(RPow(a.arg, b.den \div g), RPow(b.arg, a.den \div g)),
                    2 * ((a.den * b.den) \div g),
                    Div(Add(a.plus, b.plus), I(2)))

LAdd(a, x) == IF a.nan \/ x.nan THEN LNaN ELSE [a EXCEPT !.plus = Add(a.plus, x)]

\* IEEE equality of two losses (NaN equals nothing)
LEq(a, b) == ~a.nan /\ ~b.nan /\ a = b

\* ---------------------------------------------------------------- tensors

Rows(mat) == Len(mat)

Cols(mat) == IF mat = <<>> THEN 0 ELSE Len(mat[1])

\* logits.T
Transpose(mat) ==
    [j \in 1..Cols(mat) |-> [i \in 1..Rows(mat) |-> mat[i][j]]]

\* F.softmax(logits, dim=-1) of one row
Softmax(row) ==
    LET w == [j \in 1..Len(row) |-> Exp(row[j])]
        s == SumSeq(w)
    IN  [j \in 1..Len(row) |-> Div(w[j], s)]

\* probs[i, label]: a negative index counts from the end; the position
\* (1-based) or 0 when the index is out of bounds (IndexError)
IndexPos(label, size) ==
    IF label >= 0 /\ label < size THEN label + 1
    ELSE IF label < 0 /\ label >= -size THEN size + label + 1
    ELSE 0

\* mutant: the class picked is one past the target (a 1-based class index)
CrossEntropy_OffByOne(input, target) ==
    LET kept == {i \in 1..Len(target) : target[i] # IgnoreIndex}
        bad  == {i \in kept : target[i] < 0 \/ target[i] >= Cols(input)}
        pick == [i \in 1..Len(target) |->
                    IF i \in kept
                    THEN Softmax(input[i])[((target[i] + 1) % Cols(input)) + 1]
                    ELSE I(1)]
    IN  IF Rows(input) # Len(target) THEN [err |-> "ValueError", val |-> LNaN]
        ELSE IF bad # {} THEN [err |-> "IndexError", val |-> LNaN]
        ELSE [err |-> "none",
              val |-> LogVal(ProdSeq(pick), Cardinality(kept), Zero)]

\* F.cross_entropy(input, target), reduction "mean", ignore_index -100:
\* ValueError when the batch sizes differ, IndexError when a target that is
\* not ignore_index is no class, else the mean over the targets not ignored
\* of -log softmax(input[i])[target[i]] (NaN when every target is ignored).
CrossEntropy(input, target) ==
    LET kept == {i \in 1..Len(target) : target[i] # IgnoreIndex}
        bad  == {i \in kept : target[i] < 0 \/ target[i] >= Cols(input)}
        pick == [i \in 1..Len(target) |->
                    IF i \in kept THEN Softmax(input[i])[target[i] + 1] ELSE I(1)]
    IN  IF Rows(input) # Len(target) THEN [err |-> "ValueError", val |-> LNaN]
        ELSE IF bad # {} THEN [err |-> "IndexError", val |-> LNaN]
        ELSE [err |-> "none",
              val |-> LogVal(ProdSeq(pick), Cardinality(kept), Zero)]

\* line 83
ClipLoss(logits, labels) ==
    LET r == CrossEntropy(logits, labels)
        c == CrossEntropy(Transpose(logits), labels)
    IN  IF r.err # "none" THEN r
        ELSE IF c.err # "none" THEN c
        ELSE [err |-> "none", val |-> LMean2(r.val, c.val)]

\* mutant: the mask takes the classes below the true class (< for >)
CmpSample_Lower(probs, label) ==
    LET true_prob == probs[IndexPos(label, Len(probs))]
        mask == {j \in 1..Len(probs) : Gt(true_prob, probs[j]) /\ j - 1 # label}
        excess_prob == SumSeq([j \in 1..Len(probs) |->
                                  IF j \in mask THEN probs[j] ELSE Zero])
    IN  IF Gt(excess_prob, Zero) THEN Div(true_prob, excess_prob) ELSE Zero

\* lines 55-68.  Reached from forward only after line 35 has indexed every
\* label, so every label is a valid index here.
CmpSample(probs, label) ==
    LET true_prob == probs[IndexPos(label, Len(probs))]
        mask == {j \in 1..Len(probs) : Gt(probs[j], true_prob) /\ j - 1 # label}
        excess_prob == SumSeq([j \in 1..Len(probs) |->
                                  IF j \in mask THEN probs[j] ELSE Zero])
    IN  IF Gt(excess_prob, Zero) THEN Div(true_prob, excess_prob) ELSE Zero

\* mutant: the ratio is subtracted from the running sum (-= for +=)
compute_cmp_Subtract(logits, labels) ==
    LET batch_size == Rows(logits)
        cmp_loss == SumSeq([i \in 1..batch_size |->
                               Neg(CmpSample(Softmax(logits[i]), labels[i]))])
    IN  Div(cmp_loss, I(batch_size))

compute_cmp(logits, labels) ==
    LET batch_size == Rows(logits)
        cmp_loss == SumSeq([i \in 1..batch_size |->
                               CmpSample(Softmax(logits[i]), labels[i])])
    IN  Div(cmp_loss, I(batch_size))

\* ----------------------------------------------------- the prompt learner

\* self.prompt_learner is None after construction (line 18); a caller that
\* tunes prompts assigns a module to it.  What forward needs of that module:
\* how many parameter tensors it has, whether the logits depend on them (the
\* backbone's text path runs through it), and the derivative of logits[i][j]
\* with respect to its parameter: the parameter moves the j-th prompt's
\* logits j times as fast as the first prompt's.
NoPromptLearner ==
    [present |-> FALSE, nparams |-> 0, in_graph |-> FALSE, jac |-> "none"]

Jacobians == {"every_prompt"}

DLogit(jac, j) == IF jac = "every_prompt" THEN j ELSE 0

PromptLearners ==
    { [present |-> TRUE, nparams |-> 0, in_graph |-> FALSE, jac |-> "none"],
      [present |-> TRUE, nparams |-> 1, in_graph |-> FALSE, jac |-> "none"] }
    \cup { [present |-> TRUE, nparams |-> 1, in_graph |-> TRUE, jac |-> jc] :
              jc \in Jacobians }

\* lines 35-38 for one sample: the gradient of log(probs[label]) with respect
\* to the parameter, d/dtheta log softmax(l)[y] = sum_j ([j = y] - p_j) * dl_j
GradLogProb(probs, label, jac) ==
    LET pos == IndexPos(label, Len(probs))
    IN  SumSeq([j \in 1..Len(probs) |->
                   Mul(Add(IF j = pos THEN I(1) ELSE Zero, Neg(probs[j])),
                       I(DLogit(jac, j)))])

\* mutant: without a prompt learner or without parameters the penalty is 0
\* (a fallback instead of the exception)
compute_fisher_penalty_Fallback(prompt_learner, logits, labels) ==
    LET batch_size == Rows(logits)
        num_classes == Cols(logits)
        badidx == {i \in 1..batch_size : IndexPos(labels[i], num_classes) = 0}
        sqnorm == [i \in 1..batch_size |->
                      Sq(GradLogProb(Softmax(logits[i]), labels[i],
                                     prompt_learner.jac))]
    IN  IF badidx # {} THEN [err |-> "IndexError", line |-> 35, val |-> NaN]
        ELSE IF ~prompt_learner.present \/ prompt_learner.nparams = 0
            THEN [err |-> "none", line |-> 0, val |-> Zero]
        ELSE IF ~prompt_learner.in_graph
            THEN [err |-> "RuntimeError", line |-> 36, val |-> NaN]
        ELSE [err |-> "none", line |-> 0,
              val |-> Div(SumSeq(sqnorm), I(batch_size))]

\* lines 29-44.  The loop body indexes probs with the label (line 35,
\* IndexError) before it touches self.prompt_learner (line 36: AttributeError
\* on None, RuntimeError from autograd.grad on no inputs or on inputs the
\* logits do not depend on), so the first sample's label is checked first.
compute_fisher_penalty(prompt_learner, logits, labels) ==
    LET batch_size == Rows(logits)
        num_classes == Cols(logits)
        badidx == {i \in 1..batch_size : IndexPos(labels[i], num_classes) = 0}
        sqnorm == [i \in 1..batch_size |->
                      Sq(GradLogProb(Softmax(logits[i]), labels[i],
                                     prompt_learner.jac))]
    IN  IF 1 \in badidx THEN [err |-> "IndexError", line |-> 35, val |-> NaN]
        ELSE IF ~prompt_learner.present
            THEN [err |-> "AttributeError", line |-> 36, val |-> NaN]
        ELSE IF prompt_learner.nparams = 0 \/ ~prompt_learner.in_graph
            THEN [err |-> "RuntimeError", line |-> 36, val |-> NaN]
        ELSE IF badidx # {} THEN [err |-> "IndexError", line |-> 35, val |-> NaN]
        ELSE [err |-> "none", line |-> 0,
              val |-> Div(SumSeq(sqnorm), I(batch_size))]

\* ------------------------------------------------------------ the backbone

\* clip_model.parameters(): the two towers and the temperature
ParamNames == {"visual", "transformer", "logit_scale"}

\* What the encoders return is opaque to CalShift; the model fixes a table.
\* "blank" and "" are inputs the backbone maps to the zero vector.
ImageEmbedding ==
    [cat |-> <<2, 0>>, dog |-> <<0, 3>>, bird |-> <<-1, 0>>, blank |-> <<0, 0>>]

TextEmbedding ==
    [a_photo_of_a_cat |-> <<1, 0>>, a_photo_of_a_dog |-> <<0, 2>>,
     a_photo_of_a_bird |-> <<-3, 0>>, empty |-> <<0, 0>>]

\* line 72
encode_image(images) == [i \in 1..Len(images) |-> ImageEmbedding[images[i]]]

\* line 73; a text tower with another projection width gives longer vectors
encode_text(clip_model, text_tokens) ==
    [j \in 1..Len(text_tokens) |->
        TextEmbedding[text_tokens[j]] \o [k \in 1..clip_model.text_pad |-> 0]]

\* x.norm(dim=-1, keepdim=True) of one row
Norm(v) == I(ISqrtFrom(SumSeq([k \in 1..Len(v) |-> I(v[k] * v[k])]).n, 0))

\* lines 76-77: x / x.norm(...), row by row; never raises (0/0 is NaN)
Normalize(features) ==
    [i \in 1..Len(features) |->
        [k \in 1..Len(features[i]) |-> Div(I(features[i][k]), Norm(features[i]))]]

Dot(a, b) == SumSeq([k \in 1..Len(a) |-> Mul(a[k], b[k])])

\* line 80
Logits(clip_model, image_features, text_features) ==
    [i \in 1..Len(image_features) |->
        [j \in 1..Len(text_features) |->
            Mul(Dot(image_features[i], text_features[j]),
                Exp(I(clip_model.logit_scale)))]]

\* ----------------------------------------------------------------- forward

Error(exc, line) == [kind |-> "error", exc |-> exc, line |-> line]

Report(total_loss, clip_loss, fim_penalty, cmp_penalty, logits) ==
    [kind |-> "report",
     report |-> [loss |-> total_loss, clip_loss |-> clip_loss,
                 fim_penalty |-> fim_penalty, cmp_penalty |-> cmp_penalty,
                 logits |-> logits]]

\* line 92
TotalLoss(self, clip_loss, fim_penalty, cmp_penalty) ==
    LAdd(clip_loss, Add(Mul(self.lambda_fim, fim_penalty),
                        Mul(self.lambda_cmp, cmp_penalty)))

\* lines 70-100
forward(self, clip_model, batch) ==
    LET image_features == Normalize(encode_image(batch.images))
        text_features == Normalize(encode_text(clip_model, batch.text_tokens))
        logits == Logits(clip_model, image_features, text_features)
        clip_loss == ClipLoss(logits, batch.labels)
        fim_penalty == compute_fisher_penalty(self.prompt_learner, logits,
                                              batch.labels)
        cmp_penalty == compute_cmp(logits, batch.labels)
    IN  IF Len(image_features[1]) # Len(text_features[1])
            THEN Error("RuntimeError", 80)
        ELSE IF clip_loss.err # "none" THEN Error(clip_loss.err, 83)
        ELSE IF fim_penalty.err # "none"
            THEN Error(fim_penalty.err, fim_penalty.line)
        ELSE Report(TotalLoss(self, clip_loss.val, fim_penalty.val, cmp_penalty),
                    clip_loss.val, fim_penalty.val, cmp_penalty, logits)

\* ------------------------------------------------------------------ state

VARIABLES
    clip_model,     \* the backbone: requires_grad per parameter, logit_scale
    self,           \* the CalShift object most recently constructed
    constructions,  \* CalShift objects built over clip_model: 0, 1, 2 = more
    pc,             \* the caller: "idle", "called" (in forward), "returned"
    batch,          \* the arguments of the call in progress
    outcome,        \* what the call gave: nothing yet, a report, an exception
    fx,             \* SpecLoss: the logits matrix and labels drawn
    fy              \* SpecLoss: what the loss function applied to fx returned

vars == <<clip_model, self, constructions, pc, batch, outcome, fx, fy>>

\* lambda_fim, lambda_cmp: 0 and the default 0.4 (line 7)
Lambdas == {Zero, Q(2, 5)}

\* the backbones clip.load may hand over: logit_scale 0 or 1, and one whose
\* text tower is wider than its image tower by a component
Backbones ==
    { [logit_scale |-> 0, text_pad |-> 0], [logit_scale |-> 1, text_pad |-> 0],
      [logit_scale |-> 1, text_pad |-> 1] }

NoObject ==
    [constructed |-> FALSE, lambda_fim |-> Zero, lambda_cmp |-> Zero,
     prompt_learner |-> NoPromptLearner]

NoBatch == [images |-> <<>>, text_tokens |-> <<>>, labels |-> <<>>]

NoOutcome == [kind |-> "none"]

NoInput == [logits |-> <<>>, labels |-> <<>>]

NoOutput == [kind |-> "none"]

\* The batches a caller hands over (lines 111-114): n images and m prompts
\* in the data set's order and n labels, with at most one thing wrong: one
\* image or one prompt that the backbone maps to the zero vector, or one
\* label that is no class index.
Photos == <<"cat", "dog", "bird">>

Prompts == <<"a_photo_of_a_cat", "a_photo_of_a_dog", "a_photo_of_a_bird">>

Cycle(s, i) == s[((i - 1) % Len(s)) + 1]

ImagesOf(n, z) == [i \in 1..n |-> IF i = z THEN "blank" ELSE Cycle(Photos, i)]

TextTokensOf(m, z) ==
    [j \in 1..m |-> IF j = z THEN "empty" ELSE Cycle(Prompts, j)]

BadLabels(m) == {IgnoreIndex, -1, m}

GoodLabelsOf(n, m) == [1..n -> 0..(m - 1)]

BadLabelsOf(n, m) ==
    { [l EXCEPT ![i] = b] : l \in GoodLabelsOf(n, m), i \in 1..n, b \in BadLabels(m) }

Batch(images, text_tokens, labels) ==
    [images |-> images, text_tokens |-> text_tokens, labels |-> labels]

BatchesOf(n, m) ==
    { Batch(ImagesOf(n, zi), TextTokensOf(m, 0), l) :
          zi \in 0..n, l \in GoodLabelsOf(n, m) }
    \cup { Batch(ImagesOf(n, 0), TextTokensOf(m, zt), l) :
          zt \in 1..m, l \in GoodLabelsOf(n, m) }
    \cup { Batch(ImagesOf(n, 0), TextTokensOf(m, 0), l) : l \in BadLabelsOf(n, m) }

Batches == UNION { BatchesOf(n, m) : n \in 1..MaxN, m \in 1..MaxM }

Init ==
    /\ clip_model \in
           { [requires_grad |-> rg, logit_scale |-> b.logit_scale,
              text_pad |-> b.text_pad] :
                 rg \in [ParamNames -> BOOLEAN], b \in Backbones }
    /\ self = NoObject
    /\ constructions = 0
    /\ pc = "idle"
    /\ batch = NoBatch
    /\ outcome = NoOutcome
    /\ fx = NoInput
    /\ fy = NoOutput

\* mutant: only the two towers are frozen, the temperature is left alone
Freeze_TowersOnly(requires_grad) ==
    [p \in DOMAIN requires_grad |->
        IF p = "logit_scale" THEN requires_grad[p] ELSE FALSE]

\* lines 13-15
Freeze(requires_grad) == [p \in DOMAIN requires_grad |-> FALSE]

\* lines 7-18: CalShift(clip_model, lambda_fim, lambda_cmp), any number of
\* times over the same backbone; the model keeps the latest object and
\* whether it is the first one
Construct(lambda_fim, lambda_cmp) ==
    /\ pc = "idle"
    /\ self' = [constructed |-> TRUE, lambda_fim |-> lambda_fim,
                lambda_cmp |-> lambda_cmp, prompt_learner |-> NoPromptLearner]
    /\ clip_model' = [clip_model EXCEPT !.requires_grad = Freeze(@)]
    /\ constructions' = IF constructions = 0 THEN 1 ELSE 2
    /\ UNCHANGED <<pc, batch, outcome, fx, fy>>

\* the caller gives the object a prompt learner (line 18: "would be
\* initialized for CoOp-style learning")
AttachPromptLearner(pl) ==
    /\ pc = "idle"
    /\ self.constructed
    /\ ~self.prompt_learner.present
    /\ self' = [self EXCEPT !.prompt_learner = pl]
    /\ UNCHANGED <<clip_model, constructions, pc, batch, outcome, fx, fy>>

\* lines 111-117: the caller calls the object on a batch
Call(b) ==
    /\ pc = "idle"
    /\ self.constructed
    /\ pc' = "called"
    /\ batch' = b
    /\ UNCHANGED <<clip_model, self, constructions, outcome, fx, fy>>

\* mutant: line 80 exponentiates the temperature in place (exp_() for exp())
Forward_InPlaceExp ==
    /\ pc = "called"
    /\ outcome' = forward(self, clip_model, batch)
    /\ clip_model' = [clip_model EXCEPT !.logit_scale = Exp(I(@)).n]
    /\ pc' = "returned"
    /\ UNCHANGED <<self, constructions, batch, fx, fy>>

\* lines 70-100: forward runs to its return or to the exception it raises
Forward ==
    /\ pc = "called"
    /\ outcome' = forward(self, clip_model, batch)
    /\ pc' = "returned"
    /\ UNCHANGED <<clip_model, self, constructions, batch, fx, fy>>

\* lines 118-121: the caller has read the outputs (or caught the exception)
Return ==
    /\ pc = "returned"
    /\ pc' = "idle"
    /\ batch' = NoBatch
    /\ outcome' = NoOutcome
    /\ UNCHANGED <<clip_model, self, constructions, fx, fy>>

Next ==
    \/ \E lf \in Lambdas, lc \in Lambdas : Construct(lf, lc)
    \/ \E pl \in PromptLearners : AttachPromptLearner(pl)
    \/ \E b \in Batches : Call(b)
    \/ Forward
    \/ Return

Spec == Init /\ [][Next]_vars

\* ------------------------------------------- batches of ignore_index size

\* As many prompts as -ignore_index, where the label -100 is a valid
\* negative index: one image and one prompt repeated, the first label a
\* class, the other labels -100.
WideSize == -IgnoreIndex

WideBatch ==
    Batch([i \in 1..WideSize |-> "cat"],
          [j \in 1..WideSize |-> "a_photo_of_a_cat"],
          [i \in 1..WideSize |-> IF i = 1 THEN 0 ELSE IgnoreIndex])

WideBatches == {WideBatch} \cup BatchesOf(1, 1) \cup BatchesOf(MaxN, MaxN)

InitWide ==
    /\ Init
    /\ clip_model.text_pad = 0
    /\ \A p \in ParamNames : clip_model.requires_grad[p]

NextWide ==
    \/ Construct(Q(2, 5), Q(2, 5))
    \/ \E pl \in PromptLearners : AttachPromptLearner(pl)
    \/ \E b \in WideBatches : Call(b)
    \/ Forward
    \/ Return

SpecWide == InitWide /\ [][NextWide]_vars

\* --------------------------------------------- the loss functions alone

\* logits of a batch: every n x m matrix over LogitValues, every labels
\* vector in range
LogitValues == {-1, 1}

Dims == 1..MaxDim

Matrices(n, m) == [1..n -> [1..m -> {I(v) : v \in LogitValues}]]

LossInputs ==
    UNION { [logits : Matrices(n, m), labels : [1..n -> 0..(m - 1)]] :
              n \in Dims, m \in Dims }

PermsOf(n) ==
    {p \in [1..n -> 1..n] : \A i, k \in 1..n : p[i] = p[k] => i = k}

\* L'[i][j] = L[p(i)][p(j)]
PermuteLogits(logits, p) ==
    [i \in 1..Rows(logits) |-> [j \in 1..Cols(logits) |-> logits[p[i]][p[j]]]]

\* labels'[i] = the index k with p(k) = labels[p(i)]; labels are 0-based
PermuteLabels(labels, p) ==
    [i \in 1..Len(labels) |->
        (CHOOSE k \in 1..Len(labels) : p[k] = labels[p[i]] + 1) - 1]

InitLoss ==
    /\ clip_model = [requires_grad |-> [p \in ParamNames |-> FALSE],
                     logit_scale |-> 0, text_pad |-> 0]
    /\ self = NoObject
    /\ constructions = 0
    /\ pc = "idle"
    /\ batch = NoBatch
    /\ outcome = NoOutcome
    /\ fx \in LossInputs
    /\ fy = NoOutput

\* compute_cmp(logits, labels), lines 46-68
ApplyCmp ==
    /\ fy.kind = "none"
    /\ fy' = [kind |-> "cmp", cmp_penalty |-> compute_cmp(fx.logits, fx.labels)]
    /\ UNCHANGED <<clip_model, self, constructions, pc, batch, outcome, fx>>

\* line 83 on a square matrix, and on the same matrix with rows, columns and
\* labels permuted by p
ApplyClip(p) ==
    /\ fy.kind = "none"
    /\ Rows(fx.logits) = Cols(fx.logits)
    /\ fy' = [kind |-> "clip", perm |-> p,
              clip_loss |-> ClipLoss(fx.logits, fx.labels),
              permuted |-> ClipLoss(PermuteLogits(fx.logits, p),
                                    PermuteLabels(fx.labels, p))]
    /\ UNCHANGED <<clip_model, self, constructions, pc, batch, outcome, fx>>

NextLoss ==
    \/ ApplyCmp
    \/ \E p \in PermsOf(Rows(fx.logits)) : ApplyClip(p)

SpecLoss == InitLoss /\ [][NextLoss]_vars

\* ================================================================= claims

Returned == pc = "returned"

NumImages == Len(batch.images)

NumPrompts == Len(batch.text_tokens)

LabelsInRange ==
    \A i \in 1..Len(batch.labels) :
        batch.labels[i] >= 0 /\ batch.labels[i] < NumPrompts

DimsMatch ==
    \A i \in 1..NumImages, j \in 1..NumPrompts :
        Len(encode_image(batch.images)[i])
            = Len(encode_text(clip_model, batch.text_tokens)[j])

IsZeroVector(v) == \A k \in 1..Len(v) : v[k] = 0

ZeroNormEmbedding ==
    \/ \E i \in 1..NumImages : IsZeroVector(encode_image(batch.images)[i])
    \/ \E j \in 1..NumPrompts :
           IsZeroVector(encode_text(clip_model, batch.text_tokens)[j])

\* the input contract of the specification, section 6
ContractBatch ==
    /\ NumImages >= 1
    /\ NumPrompts >= 1
    /\ Len(batch.labels) = NumImages
    /\ LabelsInRange
    /\ DimsMatch
    /\ ~ZeroNormEmbedding

ParametersMissing ==
    ~self.prompt_learner.present \/ self.prompt_learner.nparams = 0

ReportFields == {"loss", "clip_loss", "fim_penalty", "cmp_penalty", "logits"}

\* C1: whenever forward has run on a batch that meets the input contract (n
\* images, m prompts, n labels in [0, m), n and m free, matching dimensions,
\* no zero embedding), on an object whose prompt learner is present, has a
\* parameter and is differentiated through by the logits, it has returned a
\* report with exactly the fields loss, clip_loss, fim_penalty, cmp_penalty
\* and logits, the logits n x m.
C1_ForwardCompletesOnContractBatch ==
    (Returned /\ ContractBatch /\ ~ParametersMissing
        /\ self.prompt_learner.in_graph)
    => /\ outcome.kind = "report"
       /\ DOMAIN outcome.report = ReportFields
       /\ Rows(outcome.report.logits) = NumImages
       /\ Cols(outcome.report.logits) = NumPrompts

\* C2: whenever forward has returned a report, its loss equals clip_loss +
\* lambda_fim * fim_penalty + lambda_cmp * cmp_penalty of the same report,
\* and equals clip_loss when both weights are 0.
C2_LossIsComposition ==
    (Returned /\ outcome.kind = "report")
    => LET r == outcome.report
       IN  /\ LEq(r.loss,
                  LAdd(r.clip_loss,
                       Add(Mul(self.lambda_fim, r.fim_penalty),
                           Mul(self.lambda_cmp, r.cmp_penalty))))
           /\ (self.lambda_fim = Zero /\ self.lambda_cmp = Zero)
                  => LEq(r.loss, r.clip_loss)

\* The identity of C2 on the reports whose clip_loss and fim_penalty are
\* numbers (not NaN).
CompositionOnFiniteReports ==
    (Returned /\ outcome.kind = "report" /\ ~outcome.report.clip_loss.nan
        /\ ~outcome.report.fim_penalty.nan)
    => C2_LossIsComposition

\* C3: whenever forward has run on a batch with a label that is negative or
\* >= the number of prompts, it has ended in an error (the claim asks for the
\* invalid-label error in particular) and has returned no report.
C3_BadLabelIsAnError ==
    (Returned /\ ~LabelsInRange) => outcome.kind = "error"

\* The stronger reading of C3: the error is the invalid-label error
\* (IndexError: the target or the index is out of bounds).
C3_BadLabelIsInvalidLabelError ==
    (Returned /\ DimsMatch /\ ~LabelsInRange)
    => (outcome.kind = "error" /\ outcome.exc = "IndexError")

C5_BackboneFrozen ==
    constructions >= 1
    => \A p \in ParamNames : ~clip_model.requires_grad[p]

\* C5's case: a second object has been constructed over the same backbone.
C5_Witness ==
    /\ constructions >= 2
    /\ \A p \in ParamNames : ~clip_model.requires_grad[p]

\* C9: whenever forward has run on a batch with an image or text embedding
\* of norm zero, it has ended in an error (the claim asks for a
\* degenerate-norm error in particular) and has returned no report.
C9_ZeroNormIsAnError ==
    (Returned /\ ZeroNormEmbedding) => outcome.kind = "error"

\* C10: a step of forward, whether it returns a report or raises, leaves the
\* object's fields (lambda_fim, lambda_cmp, prompt_learner) and the backbone
\* (parameter values, requires_grad flags) as they were, and what it gives
\* back is the function forward of those fields, the backbone and the batch
\* alone: calls with the same batch and the same parameters agree, whatever
\* ran in between.
C10_ForwardLeavesStateAlone ==
    [][pc = "called"
        => /\ self' = self
           /\ clip_model' = clip_model
           /\ batch' = batch
           /\ outcome' = forward(self', clip_model', batch')]_vars

\* C10's case: forward has run and returned a report.
C10_Witness == Returned /\ outcome.kind = "report" /\ NumImages >= 2

\* ------------------------------------------------ claims on the functions

\* softmax probability of class j (0-based) in row i, for the claims: the
\* weight of the class over the sum of the weights of the row
Weight(i, j) == Exp(fx.logits[i][j + 1])

Classes == 0..(Cols(fx.logits) - 1)

Samples == 1..Rows(fx.logits)

RECURSIVE SumOver(_, _, _)
SumOver(W(_, _), i, js) ==
    IF js = {} THEN Zero
    ELSE LET j == CHOOSE x \in js : TRUE
         IN  Add(W(i, j), SumOver(W, i, js \ {j}))

Prob(i, j) == Div(Weight(i, j), SumOver(Weight, i, Classes))

TrueProb(i) == Prob(i, fx.labels[i])

\* the other classes of row i whose probability strictly exceeds the label's
Exceeding(i) == {j \in Classes \ {fx.labels[i]} : Gt(Prob(i, j), TrueProb(i))}

ExcessProb(i) == SumOver(Prob, i, Exceeding(i))

\* in every row the label's class is strictly the most probable
LabelsDominate ==
    \A i \in Samples : \A j \in Classes \ {fx.labels[i]} :
        Gt(TrueProb(i), Prob(i, j))

\* C6: when in every row the label's probability is strictly greater than
\* every other class's, compute_cmp returns 0.
C6_CmpZeroWhenLabelsDominate ==
    (fy.kind = "cmp" /\ LabelsDominate) => NumEq(fy.cmp_penalty, Zero)

\* C6's case: two samples, two or more classes, every label dominant.
C6_Witness ==
    /\ fy.kind = "cmp" /\ LabelsDominate
    /\ Rows(fx.logits) >= 2 /\ Cols(fx.logits) >= 2

Contribution(i) ==
    IF Exceeding(i) = {} THEN Zero ELSE Div(TrueProb(i), ExcessProb(i))

RECURSIVE SumContributions(_)
SumContributions(n) ==
    IF n = 0 THEN Zero ELSE Add(Contribution(n), SumContributions(n - 1))

\* C7: compute_cmp returns a value >= 0, the mean over the samples of 0 or
\* true_prob / excess_prob, excess_prob being the sum of the probabilities
\* of the other classes that strictly exceed true_prob.
C7_CmpNonNegative ==
    fy.kind = "cmp"
    => /\ Ge(fy.cmp_penalty, Zero)
       /\ NumEq(Mul(fy.cmp_penalty, I(Rows(fx.logits))),
                SumContributions(Rows(fx.logits)))

\* C7's case: a sample whose label is outvoted, so the penalty is positive.
C7_Witness ==
    /\ fy.kind = "cmp" /\ Gt(fy.cmp_penalty, Zero)
    /\ \E i \in Samples : Exceeding(i) = {}
    /\ \E i \in Samples : Exceeding(i) # {}

\* the column softmax, for the claims: class i of column j
ColProb(j, i) ==
    Div(Exp(fx.logits[i + 1][j]),
        SumSeq([k \in Samples |-> Exp(fx.logits[k][j])]))

\* the product of the probabilities the symmetric cross-entropy picks: row
\* i's label in row i, and column j's label (as a row index) in column j
PickedProduct ==
    Mul(ProdSeq([i \in Samples |-> TrueProb(i)]),
        ProdSeq([j \in Samples |-> ColProb(j, fx.labels[j])]))

\* C8: on a square matrix the contrastive loss is the mean of the row
\* cross-entropy and the cross-entropy of the transpose against the same
\* labels, and it does not change when rows and columns are permuted by p
\* and labels'[i] is the k with p(k) = labels[p(i)].
C8_ClipLossPermutationInvariant ==
    fy.kind = "clip"
    => /\ fy.clip_loss.err = "none" /\ fy.permuted.err = "none"
       /\ LEq(fy.clip_loss.val, fy.permuted.val)
       /\ LEq(fy.clip_loss.val,
              LogVal(PickedProduct, 2 * Rows(fx.logits), Zero))

\* C8's case: a permutation that moves the matrix and the labels.
C8_Witness ==
    /\ fy.kind = "clip"
    /\ PermuteLogits(fx.logits, fy.perm) # fx.logits
    /\ PermuteLabels(fx.labels, fy.perm) # fx.labels
    /\ LEq(fy.clip_loss.val, fy.permuted.val)

====
